---------------------------- MODULE Spec2Model ----------------------------
(***************************************************************************)
(* A model of fermi.py, the reader of the output files of fermi.f:         *)
(* FermiData (the constructor, read_var, read_hist) and the module-level   *)
(* functions meshgrid, mesh_var, slice_mesh and find_nearst.               *)
(*                                                                         *)
(* Conventions.  Arrays are sequences (a 2-D array is a sequence of rows)  *)
(* and keep Python's 0-based indices through At and At2.  A text is a      *)
(* sequence of one-character strings.  Floating-point numbers are modelled *)
(* by integers (coordinates in tenths) or by exact fractions; a raised     *)
(* Python exception is recorded by its class name in err.                  *)
(***************************************************************************)
EXTENDS Integers, Sequences, FiniteSets, TLC

VARIABLES
    files,  \* the files the call reads
    self,   \* the FermiData object, [constructed |-> FALSE] before __init__
    call,   \* the last call: its name and its arguments
    ret,    \* what the last call returned
    err     \* the exception the last call raised, "none" if it returned

vars == <<files, self, call, ret, err>>

NoObject == [constructed |-> FALSE]
NoCall == [op |-> "none"]
NoValue == <<>>

\* The module-level functions keep nothing between calls, so a behaviour of
\* theirs is one call made from the state without a call.
Idle == call.op = "none"

(***************************************************************************)
(* Sequences and arrays.                                                   *)
(***************************************************************************)
SeqsUpTo(S, n) == UNION {[1..k -> S] : k \in 0..n}

At(a, i) == a[i + 1]

At2(a, i, j) == a[i + 1][j + 1]

Abs(x) == IF x < 0 THEN -x ELSE x

Min(a, b) == IF a < b THEN a ELSE b

Reverse(s) == [i \in 1..Len(s) |-> s[Len(s) + 1 - i]]

\* a[:n] of Python: the first n elements, all of them when there are fewer
Take(s, n) == SubSeq(s, 1, Min(n, Len(s)))

\* shape of a 2-D array; an array with no rows has no columns to count
Rows(a) == Len(a)

Cols(a) == IF Len(a) = 0 THEN 0 ELSE Len(a[1])

(***************************************************************************)
(* Texts: str.split(), int() and float() of Python.                        *)
(***************************************************************************)
Whitespace == {" ", "\t", "\n"}

Digits == <<"0", "1", "2", "3", "4", "5", "6", "7", "8", "9">>

IsDigit(c) == \E d \in 1..10 : Digits[d] = c

DigitVal(c) == (CHOOSE d \in 1..10 : Digits[d] = c) - 1

\* str.split() with no separator: the maximal runs of non-whitespace
RECURSIVE SplitFrom(_, _, _, _)
SplitFrom(line, i, cur, acc) ==
    IF i > Len(line)
    THEN IF cur = <<>> THEN acc ELSE Append(acc, cur)
    ELSE IF line[i] \in Whitespace
         THEN SplitFrom(line, i + 1, <<>>,
                        IF cur = <<>> THEN acc ELSE Append(acc, cur))
         ELSE SplitFrom(line, i + 1, Append(cur, line[i]), acc)

split(line) == SplitFrom(line, 1, <<>>, <<>>)

RECURSIVE DecimalVal(_)
DecimalVal(t) ==
    IF t = <<>> THEN 0
    ELSE 10 * DecimalVal(SubSeq(t, 1, Len(t) - 1)) + DigitVal(t[Len(t)])

RECURSIVE Pow10(_)
Pow10(n) == IF n = 0 THEN 1 ELSE 10 * Pow10(n - 1)

\* int(token) succeeds on a non-empty run of digits
IsInt(t) == t # <<>> /\ \A i \in 1..Len(t) : IsDigit(t[i])

int(t) == DecimalVal(t)

\* float(token) succeeds on digits with at most one decimal point
DotsOf(t) == {i \in 1..Len(t) : t[i] = "."}

IsFloat(t) ==
    /\ \A i \in 1..Len(t) : IsDigit(t[i]) \/ t[i] = "."
    /\ Cardinality(DotsOf(t)) <= 1
    /\ \E i \in 1..Len(t) : IsDigit(t[i])

\* the value of float(token) as the exact fraction num/den
float(t) ==
    LET dots == DotsOf(t)
        p == IF dots = {} THEN Len(t) + 1 ELSE CHOOSE i \in dots : TRUE
        whole == SubSeq(t, 1, p - 1)
        frac == SubSeq(t, p + 1, Len(t))
    IN  [num |-> DecimalVal(whole \o frac), den |-> Pow10(Len(frac))]

\* x / n for a fraction x and an integer n # 0
FracDiv(x, n) == [num |-> x.num, den |-> x.den * n]

FracEq(x, y) == x.num * y.den = y.num * x.den

(***************************************************************************)
(* FermiData.__init__: the geometry of fermi.inp.                          *)
(***************************************************************************)
DimsLine == 2

KprintLine == 20

\* text[i] of Python for i >= 0
HasLine(text, i) == i < Len(text)

\* s[1:] of Python, which drops the first element and keeps the last
DropFirst(s) == SubSeq(s, 2, Len(s))

\* s[:-1] of Python: all but the last element, nothing of an empty list
DropLast(s) == SubSeq(s, 1, Len(s) - 1)

\* The statements of __init__ in order; the first that raises ends it.
Construct(dirpath, fs) ==
    IF ~fs.exists THEN [err |-> "FileNotFoundError", obj |-> NoObject]
    ELSE IF ~HasLine(fs.text, DimsLine) THEN [err |-> "IndexError", obj |-> NoObject]
    ELSE LET dims == split(At(fs.text, DimsLine)) IN
    IF Len(dims) < 1 THEN [err |-> "IndexError", obj |-> NoObject]
    ELSE IF ~IsInt(dims[1]) THEN [err |-> "ValueError", obj |-> NoObject]
    ELSE IF Len(dims) < 2 THEN [err |-> "IndexError", obj |-> NoObject]
    ELSE IF ~IsInt(dims[2]) THEN [err |-> "ValueError", obj |-> NoObject]
    ELSE IF Len(dims) < 3 THEN [err |-> "IndexError", obj |-> NoObject]
    ELSE IF ~IsFloat(dims[3]) THEN [err |-> "ValueError", obj |-> NoObject]
    ELSE LET iezone == int(dims[1])
             ilzone == int(dims[2])
             ezone == float(dims[3])
         IN
    IF iezone = 0 THEN [err |-> "ZeroDivisionError", obj |-> NoObject]
    ELSE IF ~HasLine(fs.text, KprintLine) THEN [err |-> "IndexError", obj |-> NoObject]
    ELSE LET labels == split(At(fs.text, KprintLine)) IN
         [err |-> "none",
          obj |-> [constructed |-> TRUE,
                   dir_path |-> dirpath,
                   iezone |-> iezone,
                   ilzone |-> ilzone,
                   ezone |-> ezone,
                   zone |-> iezone + ilzone,
                   reso |-> FracDiv(ezone, iezone),
                   kprint |-> DropLast(labels)]]

\* data = FermiData(dirpath)
FermiData_init ==
    /\ Idle
    /\ LET r == Construct(files.dir, files)
       IN  /\ self' = r.obj
           /\ err' = r.err
    /\ call' = [op |-> "__init__", dirpath |-> files.dir]
    /\ ret' = NoValue
    /\ UNCHANGED files

(***************************************************************************)
(* The configuration files the constructor is run on.                      *)
(***************************************************************************)
MaxLabels == 3

DirPath == "/data/fermi"

DimTokens == {<<"2">>, <<"1", "0">>, <<"0">>, <<"2", ".", "5">>, <<"x">>}

LabelTokens == {<<"1">>, <<"2", "5">>}

Gaps == {<<" ">>, <<" ", " ">>}

RECURSIVE Join(_, _)
Join(tokens, gap) ==
    IF tokens = <<>> THEN <<>>
    ELSE gap \o tokens[1] \o Join(Tail(tokens), gap)

\* a line of fermi.inp: the tokens, each after a gap, and the line end
LineOf(tokens, gap) == Join(tokens, gap) \o <<"\n">>

TextOf(n, line2, line20) ==
    [i \in 1..n |-> IF i = DimsLine + 1 THEN line2
                    ELSE IF i = KprintLine + 1 THEN line20
                    ELSE <<"\n">>]

LineCounts == {DimsLine, DimsLine + 1, KprintLine, KprintLine + 1}

DimLists == [1..2 -> DimTokens] \cup [1..3 -> DimTokens]

LabelLists == SeqsUpTo(LabelTokens, MaxLabels)

\* wrote records what the file was written from: the number of lines, the
\* tokens of line 2, the gap between them, and the tokens of line 20
Written == [nlines : LineCounts, dims : DimLists, gap : Gaps, labels : LabelLists]

ConfigFiles ==
    {[dir |-> DirPath, exists |-> FALSE, text |-> <<>>, wrote |-> <<>>]}
    \cup {[dir |-> DirPath, exists |-> TRUE, wrote |-> w,
           text |-> TextOf(w.nlines, LineOf(w.dims, w.gap), LineOf(w.labels, <<" ">>))] :
            w \in Written}

InitConfig ==
    /\ files \in ConfigFiles
    /\ self = NoObject
    /\ call = NoCall
    /\ ret = NoValue
    /\ err = "none"

NextConfig == FermiData_init

SpecConfig == InitConfig /\ [][NextConfig]_vars

(***************************************************************************)
(* C10.  What the tokens written to fermi.inp stand for, tabulated apart   *)
(* from the parser.                                                        *)
(***************************************************************************)
CountOf(t) ==
    CASE t = <<"2">> -> 2
      [] t = <<"1", "0">> -> 10
      [] t = <<"0">> -> 0

LengthOf(t) ==
    CASE t = <<"2">> -> [num |-> 2, den |-> 1]
      [] t = <<"1", "0">> -> [num |-> 10, den |-> 1]
      [] t = <<"0">> -> [num |-> 0, den |-> 1]
      [] t = <<"2", ".", "5">> -> [num |-> 5, den |-> 2]

Constructing == call.op = "__init__" /\ files.exists

\* line 2 holds E (int >= 1), L (int >= 0) and len; line 20 is there
GoodConfig ==
    /\ Constructing
    /\ files.wrote.nlines > KprintLine
    /\ Len(files.wrote.dims) = 3
    /\ files.wrote.dims[1] \in {<<"2">>, <<"1", "0">>}
    /\ files.wrote.dims[2] \in {<<"2">>, <<"1", "0">>, <<"0">>}
    /\ files.wrote.dims[3] \in {<<"2">>, <<"1", "0">>, <<"0">>, <<"2", ".", "5">>}

\* line 2 or line 20 is missing, or one of the three geometry tokens is no
\* number (with line 2 there, its even-zone count is not 0)
BadConfig ==
    /\ Constructing
    /\ \/ files.wrote.nlines <= DimsLine
       \/ /\ files.wrote.dims[1] # <<"0">>
          /\ \/ files.wrote.nlines <= KprintLine
             \/ \E i \in 1..Len(files.wrote.dims) : files.wrote.dims[i] = <<"x">>

ParseErrors == {"IndexError", "ValueError"}

\* C10: a configuration whose line 2 holds E >= 1, L and len and whose line
\* 20 holds w[0..n-1] yields zone = E + L, reso = len / E and kprint = w
\* without its last token; with line 2 or line 20 missing or a geometry
\* token that is no number the constructor raises and yields no object.
C10_Geometry ==
    /\ GoodConfig =>
          LET E == CountOf(files.wrote.dims[1])
              L == CountOf(files.wrote.dims[2])
              len == LengthOf(files.wrote.dims[3])
              w == files.wrote.labels
          IN  /\ err = "none"
              /\ self.constructed
              /\ self.zone = E + L
              /\ self.reso.den # 0
              /\ FracEq(self.reso, [num |-> len.num, den |-> len.den * E])
              /\ Len(self.kprint) = (IF Len(w) = 0 THEN 0 ELSE Len(w) - 1)
              /\ \A i \in 1..Len(self.kprint) : self.kprint[i] = w[i]
    /\ BadConfig => err \in ParseErrors /\ ~self.constructed

\* E = 10, L = 2, len = 2.5 and three labels, of which the last is dropped
C10_Witness ==
    /\ GoodConfig
    /\ files.wrote.dims = <<<<"1", "0">>, <<"2">>, <<"2", ".", "5">>>>
    /\ files.wrote.labels = <<<<"1">>, <<"2", "5">>, <<"1">>>>
    /\ self.zone = 12
    /\ self.reso = [num |-> 25, den |-> 100]
    /\ self.kprint = <<<<"1">>, <<"2", "5">>>>

(***************************************************************************)
(* FermiData.read_var: one field of one snapshot.                          *)
(***************************************************************************)
\* the same if statements with the second testing the old name first and
\* sending "ux" on to "uy"
ResolveNameChained(var) ==
    LET v1 == IF var = "uz" THEN "ux" ELSE var
    IN  IF v1 \in {"ur", "ux"} THEN "uy" ELSE v1

\* the two if statements on var, one after the other
ResolveName(var) ==
    LET v1 == IF var = "uz" THEN "ux" ELSE var
    IN  IF v1 = "ur" THEN "uy" ELSE v1

FileName(var, kprint) ==
    IF kprint = 0
    THEN var \o "atmascii.out"
    ELSE var \o "ascii.out" \o ToString(kprint)

FilePath(dirpath, var, kprint) ==
    dirpath \o "/" \o FileName(ResolveName(var), kprint)

\* data.reshape([n, n]) in row-major order: entry [i, j] is token i*n + j
Reshape(t, n) == [i \in 1..n |-> [j \in 1..n |-> t[(i - 1) * n + j]]]

\* data.T left out
NoTranspose(a) == a

\* data.T
Transpose(a) == [j \in 1..Cols(a) |-> [i \in 1..Rows(a) |-> a[i][j]]]

\* max() of an empty array raises, and so does a reshape of the wrong size
ReadVar(obj, t) ==
    IF Len(t) = 0 THEN [err |-> "ValueError", val |-> NoValue]
    ELSE IF Len(t) # obj.zone * obj.zone THEN [err |-> "ValueError", val |-> NoValue]
    ELSE [err |-> "none", val |-> Transpose(Reshape(t, obj.zone))]

FieldNames == {"uz", "ur", "ux", "uy", "den"}

Kprints == {0, 1, 10}

\* data.read_var(var, kprint)
read_var(var, kprint) ==
    /\ self.constructed
    /\ LET r == ReadVar(self, files.tokens)
       IN  /\ ret' = r.val
           /\ err' = r.err
    /\ call' = [op |-> "read_var", var |-> var, kprint |-> kprint]
    /\ files' = [files EXCEPT !.opened = FilePath(self.dir_path, var, kprint)]
    /\ UNCHANGED self

(***************************************************************************)
(* FermiData.read_hist: one of the two history logs.                       *)
(***************************************************************************)
EnergySkip == 6

\* the header count of the energy log used for the gas-mass log as well
GasmassSkipAsEnergy == EnergySkip

GasmassSkip == 2

\* the arguments pandas.read_csv is called with
ReadCsv(path, skiprows) ==
    [path |-> path, skiprows |-> skiprows, delim_whitespace |-> TRUE, index_col |-> "tyr"]

ReadHist(obj, var) ==
    IF var = "energy"
    THEN [err |-> "none", val |-> ReadCsv(obj.dir_path \o "/energyc.out", EnergySkip)]
    ELSE IF var = "gasmass"
    THEN [err |-> "none", val |-> ReadCsv(obj.dir_path \o "/gasmassc.out", GasmassSkip)]
    ELSE [err |-> "ValueError", val |-> NoValue]

HistNames == {"energy", "gasmass", "bogus", "den", ""}

\* data.read_hist(var)
read_hist(var) ==
    /\ self.constructed
    /\ LET r == ReadHist(self, var)
       IN  /\ ret' = r.val
           /\ err' = r.err
           /\ files' = [files EXCEPT !.opened = IF r.err = "none" THEN r.val.path ELSE "none"]
    /\ call' = [op |-> "read_hist", var |-> var]
    /\ UNCHANGED self

(***************************************************************************)
(* The objects and field files the readers are run on.                     *)
(***************************************************************************)
MaxZone == 2

MaxTokens == 5

FieldVals == {3, 7}

\* an object as __init__ leaves it, with n even zones of unit length
GeometryOf(n) ==
    [constructed |-> TRUE, dir_path |-> DirPath, iezone |-> n, ilzone |-> 0,
     ezone |-> [num |-> n, den |-> 1], zone |-> n,
     reso |-> [num |-> n, den |-> n], kprint |-> <<>>]

InitRead ==
    /\ \E t \in SeqsUpTo(FieldVals, MaxTokens) :
          files = [dir |-> DirPath, tokens |-> t, opened |-> "none"]
    /\ \E n \in 1..MaxZone : self = GeometryOf(n)
    /\ call = NoCall
    /\ ret = NoValue
    /\ err = "none"

NextRead ==
    \/ \E var \in FieldNames, kprint \in Kprints : read_var(var, kprint)
    \/ \E var \in HistNames : read_hist(var)

SpecRead == InitRead /\ [][NextRead]_vars

(***************************************************************************)
(* C4, C5, C8.                                                             *)
(***************************************************************************)
\* C4: with N = zone and the file holding t[0..M-1], read_var returns for
\* M = N*N an N by N array with result[i][j] = t[j*N + i], and raises for
\* every other M.
C4_ReshapeTranspose ==
    call.op = "read_var" =>
        LET N == self.zone
            t == files.tokens
        IN  IF Len(t) = N * N
            THEN /\ err = "none"
                 /\ Len(ret) = N
                 /\ \A i \in 0..(N - 1) : Len(At(ret, i)) = N
                 /\ \A i \in 0..(N - 1), j \in 0..(N - 1) :
                       At2(ret, i, j) = At(t, j * N + i)
            ELSE err = "ValueError"

\* the 2 by 2 file 3 7 3 3 read as [[3, 3], [7, 3]]
C4_Witness ==
    /\ call.op = "read_var"
    /\ self.zone = 2
    /\ files.tokens = <<3, 7, 3, 3>>
    /\ err = "none"
    /\ ret = <<<<3, 3>>, <<7, 3>>>>

ResolvedName(var) ==
    CASE var = "uz" -> "ux"
      [] var = "ur" -> "uy"
      [] OTHER -> var

Decimal(k) ==
    CASE k = 1 -> "1"
      [] k = 10 -> "10"

\* C5: read_var opens <dir>/<name>atmascii.out for snapshot 0 and
\* <dir>/<name>ascii.out<k> for any other snapshot k, where name is "ux" for
\* "uz", "uy" for "ur" and the variable name itself otherwise.
C5_FileResolution ==
    call.op = "read_var" =>
        /\ files.opened =
              IF call.kprint = 0
              THEN self.dir_path \o "/" \o ResolvedName(call.var) \o "atmascii.out"
              ELSE self.dir_path \o "/" \o ResolvedName(call.var) \o "ascii.out"
                       \o Decimal(call.kprint)
        /\ (call.var = "uz" /\ call.kprint = 0) =>
              files.opened = "/data/fermi/uxatmascii.out"
        /\ (call.var = "ux" /\ call.kprint = 1) =>
              files.opened = "/data/fermi/uxascii.out1"
        /\ (call.var = "uy" /\ call.kprint = 0) =>
              files.opened = "/data/fermi/uyatmascii.out"

\* "ur" at snapshot 10 is read from uyascii.out10
C5_Witness ==
    /\ call.op = "read_var"
    /\ call.var = "ur"
    /\ call.kprint = 10
    /\ files.opened = "/data/fermi/uyascii.out10"

\* C8: read_hist raises for every name but "energy" and "gasmass", opening
\* no file; "energy" reads energyc.out skipping 6 lines and "gasmass" reads
\* gasmassc.out skipping 2 lines, each indexed by the column "tyr".
C8_HistKinds ==
    call.op = "read_hist" =>
        /\ call.var \notin {"energy", "gasmass"} =>
              err = "ValueError" /\ files.opened = "none"
        /\ call.var = "energy" =>
              /\ err = "none"
              /\ files.opened = "/data/fermi/energyc.out"
              /\ ret.path = files.opened
              /\ ret.skiprows = 6
              /\ ret.index_col = "tyr"
        /\ call.var = "gasmass" =>
              /\ err = "none"
              /\ files.opened = "/data/fermi/gasmassc.out"
              /\ ret.path = files.opened
              /\ ret.skiprows = 2
              /\ ret.index_col = "tyr"

\* the gas-mass log read with its two header lines skipped
C8_Witness ==
    /\ call.op = "read_hist"
    /\ call.var = "gasmass"
    /\ err = "none"
    /\ ret.skiprows = 2
    /\ files.opened = "/data/fermi/gasmassc.out"

(***************************************************************************)
(* find_nearst: numpy's argmin of the distances to the target.             *)
(***************************************************************************)
\* arr - target, then np.abs
Distances(arr, target) == [i \in 1..Len(arr) |-> Abs(arr[i] - target)]

\* argmin scans the array and keeps the last of equal minima
RECURSIVE ArgMinLastFrom(_, _, _)
ArgMinLastFrom(d, i, best) ==
    IF i > Len(d) THEN best - 1
    ELSE ArgMinLastFrom(d, i + 1, IF d[i] <= d[best] THEN i ELSE best)

\* argmin scans the array and moves on only to a strictly smaller value, so
\* it returns the first of equal minima (as a 0-based index)
RECURSIVE ArgMinFrom(_, _, _)
ArgMinFrom(d, i, best) ==
    IF i > Len(d) THEN best - 1
    ELSE ArgMinFrom(d, i + 1, IF d[i] < d[best] THEN i ELSE best)

ArgMinLast(d) == ArgMinLastFrom(d, 2, 1)

ArgMin(d) == ArgMinFrom(d, 2, 1)

\* argmin of an empty array raises
FindNearst(arr, target) ==
    IF Len(arr) = 0 THEN [err |-> "ValueError", val |-> NoValue]
    ELSE [err |-> "none", val |-> ArgMin(Distances(arr, target))]

(***************************************************************************)
(* meshgrid: the mirrored coordinate mesh.                                 *)
(***************************************************************************)
\* coord[np.where(coord <= bound)]
Within(coord, bound) == SelectSeq(coord, LAMBDA x : x <= bound)

Negate(s) == [i \in 1..Len(s) |-> -s[i]]

\* np.hstack((-R[::-1], R))
Mirror(R) == Negate(Reverse(R)) \o R

\* np.meshgrid(RR, z): RR along every row, z[i] all along row i
MeshR(RR, z) == [i \in 1..Len(z) |-> RR]

MeshZ(RR, z) == [i \in 1..Len(z) |-> [j \in 1..Len(RR) |-> z[i]]]

\* z.max() in the trace line raises on a mesh with no entry
Meshgrid(coord, rrange, zrange) ==
    LET z == Within(coord, zrange)
        R == Within(coord, rrange)
        RR == Mirror(R)
    IN  IF Len(z) * Len(RR) = 0 THEN [err |-> "ValueError", val |-> NoValue]
        ELSE [err |-> "none", val |-> <<MeshR(RR, z), MeshZ(RR, z)>>]

(***************************************************************************)
(* mesh_var: a field mirrored into the shape of a coordinate mesh.         *)
(***************************************************************************)
\* data[:zrange, :rrange]: numpy cuts a slice short at the array's edge
SubBlock(data, zrange, rrange) ==
    [i \in 1..Min(zrange, Rows(data)) |-> Take(data[i], rrange)]

\* np.fliplr
FlipLR(a) == [i \in 1..Rows(a) |-> Reverse(a[i])]

NegateAll(a) == [i \in 1..Rows(a) |-> Negate(a[i])]

\* the left half: the flipped right half, negated for the radial velocity
MirrorLeft(meshr, var) ==
    IF var = "ur" THEN NegateAll(FlipLR(meshr)) ELSE FlipLR(meshr)

\* np.hstack((r, l)), the halves in the wrong order
HStackSwapped(l, r) == [i \in 1..Rows(l) |-> r[i] \o l[i]]

\* np.hstack((l, r)) of two arrays with the same rows
HStack(l, r) == [i \in 1..Rows(l) |-> l[i] \o r[i]]

\* meshgrid.max() in the trace line raises on a mesh with no entry
MeshVar(data, var, mesh) ==
    LET zrange == Rows(mesh)
        rrange == Cols(mesh) \div 2
        meshr == SubBlock(data, zrange, rrange)
    IN  IF Rows(mesh) * Cols(mesh) = 0 THEN [err |-> "ValueError", val |-> NoValue]
        ELSE [err |-> "none", val |-> HStack(MirrorLeft(meshr, var), meshr)]

(***************************************************************************)
(* slice_mesh: one column or one row of an array.                          *)
(***************************************************************************)
\* data[:, nu]
Column(data, nu) == [i \in 1..Rows(data) |-> At(data[i], nu)]

\* data[nu, :]
Row(data, nu) == At(data, nu)

\* the branches of slice_mesh taken the other way round
SliceSwapped(data, direction, nu) ==
    IF direction = "r"
    THEN IF nu >= Cols(data) THEN [err |-> "IndexError", val |-> NoValue]
         ELSE [err |-> "none", val |-> Column(data, nu)]
    ELSE IF direction = "z"
    THEN IF nu >= Rows(data) THEN [err |-> "IndexError", val |-> NoValue]
         ELSE [err |-> "none", val |-> Row(data, nu)]
    ELSE [err |-> "ValueError", val |-> NoValue]

\* the if statement on direction; an index past the axis raises.  The
\* entries are returned as they are: n_constant is assigned and never used.
Slice(data, direction, nu) ==
    IF direction = "z"
    THEN IF nu >= Cols(data) THEN [err |-> "IndexError", val |-> NoValue]
         ELSE [err |-> "none", val |-> Column(data, nu)]
    ELSE IF direction = "r"
    THEN IF nu >= Rows(data) THEN [err |-> "IndexError", val |-> NoValue]
         ELSE [err |-> "none", val |-> Row(data, nu)]
    ELSE [err |-> "ValueError", val |-> NoValue]

\* find_nearst runs first, whatever the direction
SliceMesh(data, coord, direction, kpc) ==
    LET nu == FindNearst(coord, kpc)
    IN  IF nu.err # "none" THEN nu ELSE Slice(data, direction, nu.val)

(***************************************************************************)
(* The arrays the module-level functions are run on.  Coordinates, bounds  *)
(* and targets are in tenths of a kpc.                                     *)
(***************************************************************************)
MaxCoord == 3

MaxRows == 2

MaxCols == 2

CoordVals == {0, 10, 20}

Targets == {0, 5, 15, 21, 49}

Ranges == {-1, 0, 15, 20}

DataVals == {1, 2}

Directions == {"z", "r", "x"}

MeshNames == {"ur", "uz", "den"}

Coords == SeqsUpTo(CoordVals, MaxCoord)

\* find_nearst([0, 1, 2, 5, 10], 4.9)
ExampleArr == <<0, 10, 20, 50, 100>>

\* slice_mesh(data, [0, 1, 2, 3], "z", 2.1)
ExampleCoord == <<0, 10, 20, 30>>

\* every array of the shape over the values
ArraysOf(r, c, S) == [1..r -> [1..c -> S]]

Fields == UNION {ArraysOf(r, c, DataVals) : r \in 1..MaxRows, c \in 1..MaxCols}

\* a coordinate mesh of the shape; mesh_var reads its shape only.  A mesh has
\* at least one row, as every mesh that meshgrid returns.
MeshOfShape(r, c) == [i \in 1..r |-> [j \in 1..c |-> 0]]

Meshes == {MeshOfShape(r, c) : r \in 1..MaxRows, c \in 0..(2 * MaxCols)}

\* the array whose entry [i, j] is 10*(i+1) + (j+1), all entries distinct
Numbered(r, c) == [i \in 1..r |-> [j \in 1..c |-> 10 * i + j]]

NumberedArrays == {Numbered(r, c) : r \in 1..MaxRows, c \in 1..MaxCols}

InitMesh ==
    /\ files = NoValue
    /\ self = NoObject
    /\ call = NoCall
    /\ ret = NoValue
    /\ err = "none"

\* find_nearst(arr, target), also on the array of the documented example
find_nearst ==
    /\ Idle
    /\ \E arr \in Coords \cup {ExampleArr}, target \in Targets :
          /\ LET r == FindNearst(arr, target)
             IN  /\ ret' = r.val
                 /\ err' = r.err
          /\ call' = [op |-> "find_nearst", arr |-> arr, target |-> target]
    /\ UNCHANGED <<files, self>>

\* meshgrid(coord, rrange, zrange)
meshgrid ==
    /\ Idle
    /\ \E coord \in Coords, rrange \in Ranges, zrange \in Ranges :
          /\ LET r == Meshgrid(coord, rrange, zrange)
             IN  /\ ret' = r.val
                 /\ err' = r.err
          /\ call' = [op |-> "meshgrid", coord |-> coord, rrange |-> rrange,
                      zrange |-> zrange]
    /\ UNCHANGED <<files, self>>

\* mesh_var(data, var, meshgrid)
mesh_var ==
    /\ Idle
    /\ \E data \in Fields, var \in MeshNames, mesh \in Meshes :
          /\ LET r == MeshVar(data, var, mesh)
             IN  /\ ret' = r.val
                 /\ err' = r.err
          /\ call' = [op |-> "mesh_var", data |-> data, var |-> var, meshgrid |-> mesh]
    /\ UNCHANGED <<files, self>>

\* the arguments of slice_mesh, with those of the documented example
SliceCalls ==
    [data : NumberedArrays, coord : Coords, direction : Directions, kpc : Targets]
    \cup [data : {Numbered(2, 4)}, coord : {ExampleCoord}, direction : Directions,
          kpc : {21}]

\* slice_mesh(data, coord, direction, kpc)
slice_mesh ==
    /\ Idle
    /\ \E c \in SliceCalls :
          /\ LET r == SliceMesh(c.data, c.coord, c.direction, c.kpc)
             IN  /\ ret' = r.val
                 /\ err' = r.err
          /\ call' = [op |-> "slice_mesh", data |-> c.data, coord |-> c.coord,
                      direction |-> c.direction, kpc |-> c.kpc]
    /\ UNCHANGED <<files, self>>

NextMesh == find_nearst \/ meshgrid \/ mesh_var \/ slice_mesh

SpecMesh == InitMesh /\ [][NextMesh]_vars

(***************************************************************************)
(* C1, C2, C3: mesh_var.                                                   *)
(***************************************************************************)
MeshVarCalled == call.op = "mesh_var"

zCount == Rows(call.meshgrid)

rCount == Cols(call.meshgrid) \div 2

\* the reference mesh has 2*rCount columns, rCount >= 1
EvenMesh == Cols(call.meshgrid) = 2 * rCount /\ rCount >= 1

\* the field holds the whole sub-block
FieldCovers == Rows(call.data) >= zCount /\ Cols(call.data) >= rCount

\* the result has the entry [z, c]
HasEntry(z, c) == z < Rows(ret) /\ c < Len(At(ret, z))

\* C1: for every field and every reference mesh with zCount rows and
\* 2*rCount columns, the result's entries [z, rCount-1-k] and [z, rCount+k]
\* are each other's negation for "ur" and equal for every other variable,
\* for every z < zCount and k < rCount.
C1_Antisymmetry ==
    (MeshVarCalled /\ EvenMesh) =>
        /\ err = "none"
        /\ \A z \in 0..(zCount - 1), k \in 0..(rCount - 1) :
              /\ HasEntry(z, rCount - 1 - k)
              /\ HasEntry(z, rCount + k)
              /\ At2(ret, z, rCount - 1 - k) =
                    IF call.var = "ur" THEN -At2(ret, z, rCount + k)
                    ELSE At2(ret, z, rCount + k)

C3_ShapeError ==
    (/\ MeshVarCalled
     /\ \/ Cols(call.meshgrid) % 2 = 1
        \/ Rows(call.data) < zCount
        \/ 2 * Cols(call.data) < Cols(call.meshgrid))
    => err = "ValueError"

(***************************************************************************)
(* C6, C7: find_nearst and slice_mesh.                                     *)
(***************************************************************************)
\* i is the lowest index of arr that is nearest to target
LowestNearest(arr, target, i) ==
    /\ i \in 0..(Len(arr) - 1)
    /\ \A j \in 0..(Len(arr) - 1) :
          Abs(At(arr, i) - target) <= Abs(At(arr, j) - target)
    /\ \A j \in 0..(i - 1) :
          Abs(At(arr, j) - target) > Abs(At(arr, i) - target)

\* C6: for a non-empty array, find_nearst returns the lowest index whose
\* element is nearest to the target; find_nearst([0,1,2,5,10], 4.9) = 3.
C6_Nearest ==
    (call.op = "find_nearst" /\ Len(call.arr) > 0) =>
        /\ err = "none"
        /\ LowestNearest(call.arr, call.target, ret)
        /\ (call.arr = <<0, 10, 20, 50, 100>> /\ call.target = 49) => ret = 3

\* 0.5 is as near to 0 as to 1: the lower index is returned
C6_Witness ==
    /\ call.op = "find_nearst"
    /\ call.arr = <<10, 0, 10>>
    /\ call.target = 5
    /\ ret = 0

\* C7: with index the lowest index of coord nearest to the distance,
\* slice_mesh returns the column data[:, index] for "z" and the row
\* data[index, :] for "r", entries of data as they are, and raises for
\* every other direction; coord = [0,1,2,3], "z", 2.1 gives data[:, 2].
C7_Slice ==
    call.op = "slice_mesh" =>
        /\ \A index \in 0..(Len(call.coord) - 1) :
              LowestNearest(call.coord, call.kpc, index) =>
                /\ (call.direction = "z" /\ index < Cols(call.data)) =>
                      /\ err = "none"
                      /\ Len(ret) = Rows(call.data)
                      /\ \A i \in 0..(Rows(call.data) - 1) :
                            At(ret, i) = At2(call.data, i, index)
                /\ (call.direction = "r" /\ index < Rows(call.data)) =>
                      /\ err = "none"
                      /\ ret = At(call.data, index)
        /\ call.direction \notin {"z", "r"} => err = "ValueError"
        /\ (call.coord = <<0, 10, 20, 30>> /\ call.direction = "z" /\ call.kpc = 21) =>
              ret = <<At2(call.data, 0, 2), At2(call.data, 1, 2)>>

\* the cut along z at 2.1 kpc is column 2 of a 2 by 4 array
C7_Witness ==
    /\ call.op = "slice_mesh"
    /\ call.coord = <<0, 10, 20, 30>>
    /\ call.direction = "z"
    /\ call.kpc = 21
    /\ call.data = <<<<11, 12, 13, 14>>, <<21, 22, 23, 24>>>>
    /\ ret = <<13, 23>>

(***************************************************************************)
(* C9: meshgrid.                                                           *)
(***************************************************************************)
\* the mesh pair (R, z) is built from Zc and Rc as the claim says
MeshPairOf(Zc, Rc) ==
    LET RR == [k \in 1..(2 * Len(Rc)) |->
                 IF k <= Len(Rc) THEN -Rc[Len(Rc) + 1 - k] ELSE Rc[k - Len(Rc)]]
    IN  /\ err = "none"
        /\ Rows(ret[1]) = Len(Zc)
        /\ Rows(ret[2]) = Len(Zc)
        /\ \A i \in 1..Len(Zc) :
              /\ Len(ret[1][i]) = 2 * Len(Rc)
              /\ Len(ret[2][i]) = 2 * Len(Rc)
              /\ \A j \in 1..(2 * Len(Rc)) :
                    /\ ret[1][i][j] = RR[j]
                    /\ ret[2][i][j] = Zc[i]
                    /\ ret[1][i][j] = -ret[1][i][2 * Len(Rc) + 1 - j]

\* C9: for every coordinate array and bounds, with Zc the values <= zMax
\* and Rc the values <= rMax, meshgrid returns (R, z), both of shape
\* (len(Zc), 2*len(Rc)), with R[i][j] = RR[j] and z[i][j] = Zc[i] for
\* RR = concat(reverse(-Rc), Rc), so that RR[k] = -RR[2*len(Rc)-1-k].
C9_Meshgrid ==
    call.op = "meshgrid" =>
        MeshPairOf(SelectSeq(call.coord, LAMBDA x : x <= call.zrange),
                   SelectSeq(call.coord, LAMBDA x : x <= call.rrange))

=============================================================================
